---------------------------- MODULE Spec2Model ----------------------------
(***************************************************************************)
(* Model of src/src/type_I_migration.c (REBOUNDx effect: Type I migration). *)
(*                                                                         *)
(* The file is a work in progress and is read here as it is written:       *)
(*   - `x**y` is read as exponentiation, pow(x, y);                        *)
(*   - every identifier names its own object.  t_e (line 189) and a      *)
(*     (lines 209-213) are used without a declaration and nothing in the   *)
(*     file gives them a value: what the call reads from them is           *)
(*     unconstrained, and is drawn here from a small set;                  *)
(*   - ms (lines 187, 190), primary (line 171) and the sim of line 125     *)
(*     name quantities of the simulation that the function was not         *)
(*     handed: the star mass, the reference body and the simulation;       *)
(*   - `force-Zap` (line 166) is read as `force->ap`, and the extra eighth *)
(*     argument of the call at line 149 is dropped;                        *)
(*   - dereferencing a parameter pointer that rebx_get_param returned as   *)
(*     NULL is undefined behaviour: the process is killed, or the read     *)
(*     yields some double.                                                 *)
(*                                                                         *)
(* A C double is modelled as a binary floating-point number m * 2^x with   *)
(* a mantissa of MantBits bits (an IEEE double has 53), an unbounded       *)
(* exponent, the two infinities and NaN.  Rounding is to nearest, so that  *)
(* x/x = 1 and scaling by two is exact, as in IEEE arithmetic.             *)
(***************************************************************************)
EXTENDS Integers, Sequences, FiniteSets, TLC

VARIABLES
    sim,        \* the simulation: G, and the star mass that `ms` reads
    force,      \* force->ap: the effect's parameters, each NULL or a value
    source,     \* the reference body handed to the evaluator
    particles,  \* the particles array: state, p->ap parameters, orbit
    out,        \* per particle: what the last call of the evaluator did
    calls,      \* the calls of rebx_com_force made by the driver
    ndriver,    \* how many times the driver has been entered
    pending,    \* particles rebx_com_force has still to evaluate this step
    trap        \* arguments and result of rebx_calculate_planet_trap

vars == <<sim, force, source, particles, out, calls, ndriver, pending, trap>>

----------------------------------------------------------------------------
(* Bounds of the model. *)

\* Mantissa width of the modelled double.
MantBits == 12
\* Terms of the power series that stands for libm's cos.
CosTerms == 8
\* Particles handed to the driver in SpecStep.
NParticles == 2
\* Timesteps (driver calls) explored in SpecStep.
MaxSteps == 2

----------------------------------------------------------------------------
(* C doubles. *)

\* A pointer rebx_get_param returned as NULL.
NULL == [k |-> "null", m |-> 0, x |-> 0]

Abs(n) == IF n < 0 THEN -n ELSE n

Sgn(n) == IF n < 0 THEN -1 ELSE IF n > 0 THEN 1 ELSE 0

Min(a, b) == IF a < b THEN a ELSE b

RECURSIVE Pow2(_)
Pow2(n) == IF n <= 0 THEN 1 ELSE 2 * Pow2(n - 1)

RECURSIVE Pow10(_)
Pow10(n) == IF n <= 0 THEN 1 ELSE 10 * Pow10(n - 1)

RECURSIVE BitLen(_)
BitLen(n) == IF n = 0 THEN 0 ELSE 1 + BitLen(n \div 2)

Fin(m, x) == [k |-> "fin", m |-> m, x |-> x]

Zero == Fin(0, 0)

One == Fin(1, 0)

Inf(s) == [k |-> "inf", m |-> s, x |-> 0]

INFINITY == Inf(1)

NaN == [k |-> "nan", m |-> 0, x |-> 0]

\* The canonical form of a non-zero value: an odd mantissa.
RECURSIVE Strip(_, _, _)
Strip(s, a, x) == IF a % 2 = 0 THEN Strip(s, a \div 2, x + 1) ELSE Fin(s * a, x)

\* m * 2^x rounded to MantBits bits.
Norm(m, x) ==
    IF m = 0 THEN Zero
    ELSE LET a == Abs(m)
             k == BitLen(a) - MantBits
         IN  IF k > 0
             THEN Strip(Sgn(m), (a + Pow2(k - 1)) \div Pow2(k), x + k)
             ELSE Strip(Sgn(m), a, x)

FromInt(n) == Norm(n, 0)

FNeg(a) == IF a.k = "nan" THEN NaN ELSE [a EXCEPT !.m = -a.m]

FMul(a, b) ==
    IF a.k = "nan" \/ b.k = "nan" THEN NaN
    ELSE IF a.k = "inf" \/ b.k = "inf"
         THEN IF a.m = 0 \/ b.m = 0 THEN NaN ELSE Inf(Sgn(a.m) * Sgn(b.m))
         ELSE Norm(a.m * b.m, a.x + b.x)

FDiv(a, b) ==
    IF a.k = "nan" \/ b.k = "nan" THEN NaN
    ELSE IF a.k = "inf"
         THEN IF b.k = "inf" THEN NaN
              ELSE Inf(a.m * (IF b.m < 0 THEN -1 ELSE 1))
    ELSE IF b.k = "inf" THEN Zero
    ELSE IF b.m = 0
         THEN IF a.m = 0 THEN NaN ELSE Inf(Sgn(a.m))
    ELSE IF a.m = 0 THEN Zero
    ELSE LET A == Abs(a.m)
             B == Abs(b.m)
             j == 2 * MantBits + 2 - BitLen(A)
         IN  Norm(Sgn(a.m) * Sgn(b.m) * ((A * Pow2(j)) \div B), a.x - b.x - j)

FAdd(a, b) ==
    IF a.k = "nan" \/ b.k = "nan" THEN NaN
    ELSE IF a.k = "inf"
         THEN IF b.k = "inf" /\ b.m # a.m THEN NaN ELSE a
    ELSE IF b.k = "inf" THEN b
    ELSE IF a.m = 0 THEN b
    ELSE IF b.m = 0 THEN a
    ELSE LET ta == a.x + BitLen(Abs(a.m))
             tb == b.x + BitLen(Abs(b.m))
             x  == Min(a.x, b.x)
         IN  IF ta - tb > MantBits + 2 THEN a
             ELSE IF tb - ta > MantBits + 2 THEN b
             ELSE Norm(a.m * Pow2(a.x - x) + b.m * Pow2(b.x - x), x)

FSub(a, b) == FAdd(a, FNeg(b))

FLt(a, b) == LET d == FSub(a, b) IN d.k # "nan" /\ d.m < 0

FEq(a, b) == a.k # "nan" /\ a = b

FLe(a, b) == FLt(a, b) \/ FEq(a, b)

\* A decimal literal m * 10^e of the source, rounded to a double.
Dec(m, e) ==
    IF e >= 0 THEN FromInt(m * Pow10(e))
    ELSE FDiv(FromInt(m), FromInt(Pow10(-e)))

\* The largest s in lo..hi with s*s <= n.
RECURSIVE ISqrt(_, _, _)
ISqrt(n, lo, hi) ==
    IF lo >= hi THEN lo
    ELSE LET mid == (lo + hi + 1) \div 2
         IN  IF mid * mid <= n THEN ISqrt(n, mid, hi) ELSE ISqrt(n, lo, mid - 1)

\* sqrt(a) of math.h.
FSqrt(a) ==
    IF a.k = "nan" \/ a.m < 0 THEN NaN
    ELSE IF a.k = "inf" THEN INFINITY
    ELSE IF a.m = 0 THEN Zero
    ELSE LET j0 == 2 * MantBits - BitLen(a.m)
             j  == IF (a.x - j0) % 2 = 0 THEN j0 ELSE j0 - 1
         IN  Norm(ISqrt(a.m * Pow2(j), 0, Pow2(MantBits)), (a.x - j) \div 2)

\* a**n for an integer n >= 0.
RECURSIVE FPowI(_, _)
FPowI(a, n) == IF n <= 0 THEN One ELSE FMul(FPowI(a, n - 1), a)

\* The largest mantissa q in lo..hi with (q * 2^e)^5 <= v.
RECURSIVE Root5Search(_, _, _, _)
Root5Search(v, e, lo, hi) ==
    IF lo >= hi THEN lo
    ELSE LET mid == (lo + hi + 1) \div 2
         IN  IF FLe(FPowI(Norm(mid, e), 5), v)
             THEN Root5Search(v, e, mid, hi)
             ELSE Root5Search(v, e, lo, mid - 1)

\* The fifth root of a finite v > 0.
Root5(v) ==
    LET top == v.x + BitLen(v.m)
        ty  == ((top - 1) \div 5) + 1
        e   == ty - MantBits
    IN  Norm(Root5Search(v, e, Pow2(MantBits - 1), Pow2(MantBits) - 1), e)

\* a**b: the exponents of the source are whole numbers (2, 3, 4, 6, alpha,
\* beta and their negations) and 1.2 = 6/5.
FPow(a, b) ==
    CASE b.k = "fin" /\ b.x >= 0 ->
            LET n == b.m * Pow2(b.x)
            IN  IF n >= 0 THEN FPowI(a, n) ELSE FDiv(One, FPowI(a, -n))
      [] b = Dec(12, -1) ->
            IF a.k = "nan" \/ a.m < 0 THEN NaN
            ELSE IF a.k = "inf" THEN INFINITY
            ELSE IF a.m = 0 THEN Zero
            ELSE Root5(FPowI(a, 6))

\* cos(a) of math.h, by its power series.
RECURSIVE CosSeries(_, _, _, _)
CosSeries(x2, n, term, acc) ==
    IF n > CosTerms THEN acc
    ELSE LET t == FNeg(FDiv(FMul(term, x2), FromInt((2 * n - 1) * (2 * n))))
         IN  CosSeries(x2, n + 1, t, FAdd(acc, t))

FCos(a) ==
    IF a.k # "fin" THEN NaN ELSE CosSeries(FMul(a, a), 1, One, One)

M_PI == Dec(31416, -4)

----------------------------------------------------------------------------
(* rebx_calculate_planet_trap, lines 78-94. *)

\* The trap with the outer test written against the edge itself.
planet_trap_outer_at_edge(r, h, dedge) ==
    IF FLt(dedge, r)
    THEN One
    ELSE IF FLt(FMul(dedge, FSub(One, h)), r)
    THEN FSub(FMul(Dec(55, -1),
                   FCos(FDiv(FMul(FMul(FSub(FMul(dedge, FAdd(One, h)), r),
                                       FromInt(2)), M_PI),
                             FMul(FMul(FromInt(4), h), dedge)))),
              Dec(45, -1))
    ELSE FromInt(-10)

rebx_calculate_planet_trap(r, h, dedge) ==
    IF FLt(FMul(dedge, FAdd(One, h)), r)
    THEN One
    ELSE IF FLt(FMul(dedge, FSub(One, h)), r)
    THEN FSub(FMul(Dec(55, -1),
                   FCos(FDiv(FMul(FMul(FSub(FMul(dedge, FAdd(One, h)), r),
                                       FromInt(2)), M_PI),
                             FMul(FMul(FromInt(4), h), dedge)))),
              Dec(45, -1))
    ELSE FromInt(-10)

----------------------------------------------------------------------------
(* The disc model, lines 100-151. *)

\* Lines 100-104.
rebx_calculating_the_aspect_ratio(r, beta) ==
    FMul(FMul(Dec(2, -2), FPow(FromInt(3), FNeg(beta))), FPow(r, beta))

\* Lines 122-129; G is sim->G.
rebx_calculating_damping_timescale(G, mp, ms, sma, r, sd0, alpha, ar) ==
    LET sd == FMul(sd0, FPow(r, FNeg(alpha)))
    IN  FMul(FMul(FDiv(FPow(ms, FromInt(2)),
                       FMul(FMul(mp, sd), FPow(sma, FromInt(2)))),
                  FPow(ar, FromInt(4))),
             FDiv(One, FSqrt(FDiv(FMul(G, ms), sma))))

\* Lines 132-136.
rebx_calculating_eccentricity_damping_timescale(G, mp, ms, sma, r, sd0, alpha, ar, ecc) ==
    FMul(FDiv(rebx_calculating_damping_timescale(G, mp, ms, sma, r, sd0, alpha, ar),
              Dec(780, -3)),
         FAdd(FSub(One, FMul(Dec(14, -2), FPow(FDiv(ecc, ar), FromInt(2)))),
              FMul(Dec(6, -2), FPow(FDiv(ecc, ar), FromInt(3)))))

\* P(e) with the sign of the fourth-power term flipped: no reversal.
Pe_factor_no_reversal(ar, ecc) ==
    FDiv(FAdd(FAdd(One, FPow(FDiv(ecc, FMul(Dec(225, -2), ar)), Dec(12, -1))),
              FPow(FDiv(ecc, FMul(Dec(284, -2), ar)), FromInt(6))),
         FAdd(One, FPow(FDiv(ecc, FMul(Dec(202, -2), ar)), FromInt(4))))

\* Line 148: the factor P(e).
Pe_factor(ar, ecc) ==
    FDiv(FAdd(FAdd(One, FPow(FDiv(ecc, FMul(Dec(225, -2), ar)), Dec(12, -1))),
              FPow(FDiv(ecc, FMul(Dec(284, -2), ar)), FromInt(6))),
         FSub(One, FPow(FDiv(ecc, FMul(Dec(202, -2), ar)), FromInt(4))))

\* Lines 145-151.
reb_calculating_semi_major_axis_damping_timescale(G, mp, ms, sma, r, sd0, alpha, ar, ecc) ==
    FMul(FMul(FDiv(FMul(FromInt(2),
                        rebx_calculating_damping_timescale(G, mp, ms, sma, r, sd0, alpha, ar)),
                   FAdd(Dec(27, -1), FMul(Dec(11, -1), alpha))),
              FPow(ar, FromInt(2))),
         Pe_factor(ar, ecc))

----------------------------------------------------------------------------
(* The per-particle evaluator, lines 153-214. *)

Vec(x, y, z) == [x |-> x, y |-> y, z |-> z]

NoVec == Vec(NULL, NULL, NULL)

\* The test of line 206 with `<=` for `<`: true of infinite timescales too.
ApplyEccInc_always(tau_e, tau_inc) == FLe(tau_e, INFINITY) \/ FLe(tau_inc, INFINITY)

\* Line 206: whether the eccentricity/inclination term is added.
ApplyEccInc(tau_e, tau_inc) == FLt(tau_e, INFINITY) \/ FLt(tau_inc, INFINITY)

\* Lines 207-211: what is added to a.
EccIncTerm(tau_e, tau_inc, d, dv) ==
    LET vdotr  == FAdd(FAdd(FMul(d.x, dv.x), FMul(d.y, dv.y)), FMul(d.z, dv.z))
        r2     == FAdd(FAdd(FMul(d.x, d.x), FMul(d.y, d.y)), FMul(d.z, d.z))
        prefac == FDiv(FDiv(FMul(FromInt(2), vdotr), r2), tau_e)
    IN  Vec(FMul(prefac, d.x),
            FMul(prefac, d.y),
            FAdd(FMul(prefac, d.z), FDiv(FMul(FromInt(2), dv.z), tau_inc)))

\* What a call that was killed leaves: nothing is returned.
Killed(u) ==
    [kind |-> "segv", invtau_a |-> NULL, tau_e |-> NULL, tau_inc |-> NULL,
     t_a |-> NULL, aa |-> NoVec, applied |-> FALSE, ecc_inc |-> NoVec,
     a |-> NoVec, u |-> u]

\* One call.  u holds what the call reads without the file having set it:
\* u.t_e (line 189), u.a (lines 209-213) and u.nullread, what reading
\* through a NULL parameter pointer does (NULL: the process is killed;
\* otherwise the double that is read).
rebx_calculate_modify_orbits_with_type_I_migration(sim_, force_, p, source_, u) ==
    LET tau_a_ptr   == p.ap.tau_a
        tau_inc_ptr == p.ap.tau_inc
        dedge == force_.inner_disc_edge
        h     == force_.disc_edge_width
        beta  == force_.beta
        alpha == force_.alpha
        sd0   == force_.initial_disc_surface_density
        Deref(ptr) == IF ptr = NULL THEN u.nullread ELSE ptr
        a0 == p.o.a
        e0 == p.o.e
        mp == p.m
        dv == Vec(FSub(p.vx, source_.vx), FSub(p.vy, source_.vy), FSub(p.vz, source_.vz))
        d  == Vec(FSub(p.x, source_.x), FSub(p.y, source_.y), FSub(p.z, source_.z))
        r2 == FAdd(FAdd(FMul(d.x, d.x), FMul(d.y, d.y)), FMul(d.z, d.z))
        r  == FSqrt(r2)
        ar == rebx_calculating_the_aspect_ratio(r, Deref(beta))
        \* line 186
        pathA == tau_a_ptr # NULL
        \* line 189
        pathE == u.t_e # NULL
        nullA == NULL \in {h, dedge, sd0, alpha, beta}
        nullE == NULL \in {sd0, alpha, beta}
        t_a == reb_calculating_semi_major_axis_damping_timescale(
                   sim_.G, mp, sim_.ms, a0, r, Deref(sd0), Deref(alpha), ar, e0)
        invtau_a == IF pathA
                    THEN FDiv(rebx_calculate_planet_trap(a0, Deref(h), Deref(dedge)), t_a)
                    ELSE Zero
        tau_e == IF pathE
                 THEN rebx_calculating_eccentricity_damping_timescale(
                          sim_.G, mp, sim_.ms, a0, r, Deref(sd0), Deref(alpha), ar, e0)
                 ELSE INFINITY
        tau_inc == IF tau_inc_ptr # NULL THEN tau_inc_ptr ELSE INFINITY
        \* lines 198-200
        aa == Vec(FNeg(FMul(dv.x, invtau_a)), FNeg(FMul(dv.y, invtau_a)),
                  FNeg(FMul(dv.z, invtau_a)))
        applied == ApplyEccInc(tau_e, tau_inc)
        inc == EccIncTerm(tau_e, tau_inc, d, dv)
        derefNull == (pathA /\ nullA) \/ (pathE /\ nullE)
        read == [u EXCEPT !.nullread = IF derefNull THEN u.nullread ELSE NULL]
    IN  IF derefNull /\ u.nullread = NULL
        THEN Killed(read)
        ELSE [kind |-> "value",
              invtau_a |-> invtau_a, tau_e |-> tau_e, tau_inc |-> tau_inc,
              t_a |-> IF pathA THEN t_a ELSE NULL,
              aa |-> aa,
              applied |-> applied,
              ecc_inc |-> IF applied THEN inc ELSE Vec(Zero, Zero, Zero),
              \* lines 209-213: the a that is returned
              a |-> IF applied
                    THEN Vec(FAdd(u.a.x, inc.x), FAdd(u.a.y, inc.y), FAdd(u.a.z, inc.z))
                    ELSE u.a,
              u |-> read]

----------------------------------------------------------------------------
(* The force driver, lines 216-225. *)

REBX_COORDINATES_JACOBI == [k |-> "REBX_COORDINATES_JACOBI", m |-> 0, x |-> 0]

REBX_COORDINATES_BARYCENTRIC == [k |-> "REBX_COORDINATES_BARYCENTRIC", m |-> 0, x |-> 0]

REBX_COORDINATES_PARTICLE == [k |-> "REBX_COORDINATES_PARTICLE", m |-> 0, x |-> 0]

\* Lines 217-221 without the test of line 219: the default, always.
ResolveCoordinates_default(ptr) == REBX_COORDINATES_JACOBI

\* Lines 217-221: the frame handed on.
ResolveCoordinates(ptr) ==
    IF ptr # NULL THEN ptr ELSE REBX_COORDINATES_JACOBI

\* Line 224: the arguments of the one call of rebx_com_force.
ComForceCall(force_, N) ==
    [coordinates |-> ResolveCoordinates(force_.coordinates),
     back_reactions_inclusive |-> 1,
     reference_name |-> "primary",
     calculate_effect |-> "rebx_calculate_modify_orbits_with_type_I_migration",
     N |-> N]

----------------------------------------------------------------------------
(* Inputs. *)

\* The reference body: at rest at the origin, of unit mass.
Primary ==
    [m |-> One, x |-> Zero, y |-> Zero, z |-> Zero,
     vx |-> Zero, vy |-> Zero, vz |-> Zero]

\* The eccentricity at which the denominator of P(e) vanishes for Hr = 0.02.
EccSingular == FMul(Dec(202, -2), Dec(2, -2))

Body(x, y, z, vx, vy, vz, a, e) ==
    [m |-> Dec(1, -5), x |-> x, y |-> y, z |-> z, vx |-> vx, vy |-> vy, vz |-> vz,
     o |-> [a |-> a, e |-> e]]

\* Particle states with the orbit the orbit utility reports for each: a
\* circular orbit at the disc edge, an inclined one at the singular
\* eccentricity, one outside the trap beyond it, and a particle that
\* coincides with the reference body (r2 = 0).
Bodies ==
    { Body(One, Zero, Zero, Zero, One, Zero, One, Zero),
      Body(One, Zero, Dec(5, -1), Dec(5, -1), One, Dec(25, -2), One, EccSingular),
      Body(FromInt(2), Zero, Zero, Dec(25, -2), Dec(5, -1), Zero, FromInt(2), Dec(5, -2)),
      Body(Zero, Zero, Zero, Zero, One, Zero, One, Zero) }

\* p->ap: each override set or not.
Overrides ==
    [tau_a : {NULL, FromInt(10)}, tau_e : {NULL, FromInt(5)},
     tau_inc : {NULL, FromInt(20)}]

WithAp(b, ap) ==
    [m |-> b.m, x |-> b.x, y |-> b.y, z |-> b.z, vx |-> b.vx, vy |-> b.vy,
     vz |-> b.vz, o |-> b.o, ap |-> ap]

DiscFull(coordinates, beta) ==
    [coordinates |-> coordinates,
     inner_disc_edge |-> One,
     disc_edge_width |-> Dec(5, -2),
     beta |-> beta,
     alpha |-> One,
     initial_disc_surface_density |-> Dec(1, -3)]

DiscNone(coordinates) ==
    [coordinates |-> coordinates, inner_disc_edge |-> NULL,
     disc_edge_width |-> NULL, beta |-> NULL, alpha |-> NULL,
     initial_disc_surface_density |-> NULL]

DiscParams ==
    {"inner_disc_edge", "disc_edge_width", "beta", "alpha",
     "initial_disc_surface_density"}

\* The disc configured, with beta 0 or 1; one parameter left out; none set.
Discs(coordinates) ==
    {DiscFull(coordinates, Zero), DiscFull(coordinates, One), DiscNone(coordinates)}
    \cup {[DiscFull(coordinates, Zero) EXCEPT ![f] = NULL] : f \in DiscParams}

Frames ==
    {NULL, REBX_COORDINATES_JACOBI, REBX_COORDINATES_BARYCENTRIC,
     REBX_COORDINATES_PARTICLE}

\* What a call may read that the file never set.
Unconstrained ==
    [t_e : {NULL, One},
     a : {Vec(Zero, Zero, Zero), Vec(One, FromInt(-2), Dec(5, -1))},
     nullread : {NULL, One}]

NoU == [t_e |-> NULL, a |-> NoVec, nullread |-> NULL]

NoOutcome ==
    [kind |-> "none", invtau_a |-> NULL, tau_e |-> NULL, tau_inc |-> NULL,
     t_a |-> NULL, aa |-> NoVec, applied |-> FALSE, ecc_inc |-> NoVec,
     a |-> NoVec, u |-> NoU]

TrapIdle == [r |-> NULL, h |-> NULL, dedge |-> NULL, tau_a_red |-> NULL]

TrapRadii ==
    {FromInt(-1), Zero, Dec(25, -2), Dec(5, -1), Dec(75, -2), Dec(9, -1), One,
     Dec(11, -1), Dec(125, -2), Dec(15, -1), FromInt(2), Dec(25, -1),
     FromInt(3), FromInt(4)}

TrapWidths == {Dec(5, -2), Dec(25, -2), Dec(5, -1)}

TrapEdges == {One, FromInt(2)}

----------------------------------------------------------------------------
(* Actions. *)

\* A segmentation fault ends the process.
Crashed == \E i \in DOMAIN out : out[i].kind = "segv"

\* One call of the evaluator for particle i.
Evaluate(i) ==
    /\ ~Crashed
    /\ \E u \in Unconstrained :
          out' = [out EXCEPT ![i] =
                     rebx_calculate_modify_orbits_with_type_I_migration(
                         sim, force, particles[i], source, u)]
    /\ UNCHANGED <<sim, force, source, particles, calls, ndriver, trap>>

\* The evaluator called on its own with the inputs drawn.
Call(i) ==
    /\ out[i].kind = "none"
    /\ Evaluate(i)
    /\ UNCHANGED pending

\* rebx_modify_orbits_with_type_I_migration: one timestep's call.  It hands
\* the evaluator to rebx_com_force, which calls it once for each particle.
rebx_modify_orbits_with_type_I_migration ==
    /\ ~Crashed
    /\ pending = {}
    /\ ndriver < MaxSteps
    /\ ndriver' = ndriver + 1
    /\ calls' = Append(calls, ComForceCall(force, Len(particles)))
    /\ pending' = DOMAIN particles
    /\ UNCHANGED <<sim, force, source, particles, out, trap>>

\* rebx_com_force calling the evaluator for a particle of this step.
StepEvaluate(i) ==
    /\ i \in pending
    /\ Evaluate(i)
    /\ pending' = pending \ {i}

\* rebx_calculate_planet_trap called with the arguments drawn.
CallTrap ==
    /\ trap.tau_a_red = NULL
    /\ trap' = [trap EXCEPT !.tau_a_red =
                   rebx_calculate_planet_trap(trap.r, trap.h, trap.dedge)]
    /\ UNCHANGED <<sim, force, source, particles, out, calls, ndriver, pending>>

----------------------------------------------------------------------------
(* Specifications. *)

Idle ==
    /\ calls = <<>>
    /\ ndriver = 0
    /\ pending = {}
    /\ sim = [G |-> One, ms |-> One]
    /\ source = Primary

\* The evaluator on one particle.
Init ==
    /\ Idle
    /\ force \in Discs(NULL)
    /\ \E b \in Bodies, ap \in Overrides : particles = <<WithAp(b, ap)>>
    /\ out = <<NoOutcome>>
    /\ trap = TrapIdle

Next == \E i \in DOMAIN particles : Call(i)

Spec == Init /\ [][Next]_vars

\* A simulation of NParticles particles stepped by the driver.
StepBodies ==
    { WithAp(Body(One, Zero, Zero, Zero, One, Zero, One, Zero),
             [tau_a |-> NULL, tau_e |-> NULL, tau_inc |-> NULL]),
      WithAp(Body(One, Zero, Dec(5, -1), Dec(5, -1), One, Dec(25, -2), One, Zero),
             [tau_a |-> FromInt(10), tau_e |-> NULL, tau_inc |-> FromInt(20)]) }

InitStep ==
    /\ Idle
    /\ force \in {DiscFull(NULL, Zero), DiscFull(REBX_COORDINATES_PARTICLE, Zero)}
    /\ particles \in [1..NParticles -> StepBodies]
    /\ out = [i \in 1..NParticles |-> NoOutcome]
    /\ trap = TrapIdle

NextStep ==
    \/ rebx_modify_orbits_with_type_I_migration
    \/ \E i \in DOMAIN particles : StepEvaluate(i)

SpecStep == InitStep /\ [][NextStep]_vars

\* A star and one planet stepped by the driver, for each frame setting.
InitDriver ==
    /\ Idle
    /\ \E c \in Frames : force \in {DiscFull(c, Zero), DiscNone(c)}
    /\ \E b \in StepBodies : particles = <<b>>
    /\ out = <<NoOutcome>>
    /\ trap = TrapIdle

SpecDriver == InitDriver /\ [][NextStep]_vars

\* The planet trap on its own.
InitTrap ==
    /\ Idle
    /\ force = DiscNone(NULL)
    /\ particles = <<>>
    /\ out = <<>>
    /\ \E dedge \in TrapEdges, h \in TrapWidths :
         \E r \in TrapRadii \cup {FMul(dedge, FAdd(One, h)), FMul(dedge, FSub(One, h))} :
            trap = [r |-> r, h |-> h, dedge |-> dedge, tau_a_red |-> NULL]

NextTrap == CallTrap

SpecTrap == InitTrap /\ [][NextTrap]_vars

----------------------------------------------------------------------------
(* The claims. *)

Evaluated == {i \in DOMAIN out : out[i].kind # "none"}

Returned == {i \in DOMAIN out : out[i].kind = "value"}

\* Every disc parameter of the force is set.
DiscConfigured == \A f \in DiscParams : force[f] # NULL

RelPos(p) == Vec(FSub(p.x, source.x), FSub(p.y, source.y), FSub(p.z, source.z))

RelVel(p) == Vec(FSub(p.vx, source.vx), FSub(p.vy, source.vy), FSub(p.vz, source.vz))

Radius(p) ==
    LET d == RelPos(p)
    IN  FSqrt(FAdd(FAdd(FMul(d.x, d.x), FMul(d.y, d.y)), FMul(d.z, d.z)))

\* Hr at the particle, from the configured beta.
DiscHr(p) == rebx_calculating_the_aspect_ratio(Radius(p), force.beta)

\* t_a of the disc model for a particle, from the configured disc.
DiscTa(p) ==
    reb_calculating_semi_major_axis_damping_timescale(
        sim.G, p.m, sim.ms, p.o.a, Radius(p),
        force.initial_disc_surface_density, force.alpha, DiscHr(p), p.o.e)

\* t_e of the disc model for a particle, from the configured disc.
DiscTe(p) ==
    rebx_calculating_eccentricity_damping_timescale(
        sim.G, p.m, sim.ms, p.o.a, Radius(p),
        force.initial_disc_surface_density, force.alpha, DiscHr(p), p.o.e)

\* trapFactor(a, h, r_edge) / t_a for a particle, from the configured disc.
DiscRate(p) ==
    FDiv(rebx_calculate_planet_trap(p.o.a, force.disc_edge_width, force.inner_disc_edge),
         DiscTa(p))

\* C1: whenever the particle has a tau_a override, the evaluator returns and
\* the inverse semimajor-axis rate it used is 1/tau_a, whatever the disc
\* configuration is (absent parameters included).
C1_OverrideGivesInverseTauA ==
    \A i \in Evaluated :
        particles[i].ap.tau_a # NULL
        => /\ out[i].kind = "value"
           /\ out[i].invtau_a = FDiv(One, particles[i].ap.tau_a)

\* C2: with no tau_a override and the disc configured, the rate is
\* trapFactor(a, h, r_edge) / t_a from the disc model; the rate is 0 only
\* when neither the override nor the disc configuration is present.
C2_DiscRateWithoutOverride ==
    \A i \in Evaluated :
        /\ (particles[i].ap.tau_a = NULL /\ DiscConfigured)
           => /\ out[i].kind = "value"
              /\ out[i].invtau_a = DiscRate(particles[i])
        /\ (out[i].kind = "value" /\ out[i].invtau_a = Zero)
           => (particles[i].ap.tau_a = NULL /\ ~DiscConfigured)

\* C3: tau_e is the override when the particle has one; otherwise the
\* disc-derived t_e when the disc is configured; otherwise infinity.
C3_TauEResolution ==
    \A i \in Evaluated :
        /\ out[i].kind = "value"
        /\ out[i].tau_e =
              IF particles[i].ap.tau_e # NULL THEN particles[i].ap.tau_e
              ELSE IF DiscConfigured THEN DiscTe(particles[i])
              ELSE INFINITY

\* Whether the call ran the disc model (line 187 or line 190).
TookDiscPath(i) == particles[i].ap.tau_a # NULL \/ out[i].u.t_e # NULL

\* C4: a call that takes the disc-derived path while a required disc
\* parameter is absent ends in a ConfigurationError: it neither reads the
\* absent parameter nor goes on with a value in its place.
C4_MissingDiscParameterIsAnError ==
    \A i \in Evaluated :
        (TookDiscPath(i) /\ ~DiscConfigured)
        => /\ out[i].kind = "ConfigurationError"
           /\ out[i].u.nullread = NULL

\* The radii at which the trap changes regime.
TrapOuter == FMul(trap.dedge, FAdd(One, trap.h))

TrapInner == FMul(trap.dedge, FSub(One, trap.h))

\* 5.5*cos(pi*(r_edge*(1+h) - r)/(2*h*r_edge)) - 4.5
TrapTransition ==
    FSub(FMul(Dec(55, -1),
              FCos(FDiv(FMul(M_PI, FSub(TrapOuter, trap.r)),
                        FMul(FMul(FromInt(2), trap.h), trap.dedge)))),
         Dec(45, -1))

\* C5: for r_edge > 0 and h > 0 the trap factor is exactly 1 for
\* r >= r_edge*(1+h), exactly -10 for r <= r_edge*(1-h), and the cosine
\* transition value strictly between the two radii.
C5_TrapRegimes ==
    (trap.tau_a_red # NULL /\ FLt(Zero, trap.h) /\ FLt(Zero, trap.dedge))
    => /\ FLe(TrapOuter, trap.r) => trap.tau_a_red = One
       /\ FLe(trap.r, TrapInner) => trap.tau_a_red = FromInt(-10)
       /\ (FLt(TrapInner, trap.r) /\ FLt(trap.r, TrapOuter))
          => trap.tau_a_red = TrapTransition

\* The trap was called at the outer boundary radius of a zone of positive
\* width, where the cosine branch is the one taken, and returned 1.
C5_Witness ==
    /\ trap.tau_a_red = One
    /\ trap.r = TrapOuter
    /\ FLt(Zero, trap.h)
    /\ FLt(TrapInner, trap.r)

\* C6: when tau_e and tau_inc are both infinite, the eccentricity /
\* inclination term is not applied: it adds exactly the zero vector to the
\* returned acceleration, whatever the relative position and velocity.
C6_NoEccIncTermWhenBothInfinite ==
    \A i \in Returned :
        (out[i].tau_e = INFINITY /\ out[i].tau_inc = INFINITY)
        => /\ out[i].ecc_inc = Vec(Zero, Zero, Zero)
           /\ out[i].a = out[i].u.a

\* A call returned with both timescales infinite for a particle off the
\* plane that moves radially (v.r # 0).
C6_Witness ==
    \E i \in Returned :
        /\ out[i].tau_e = INFINITY
        /\ out[i].tau_inc = INFINITY
        /\ particles[i].vx # Zero
        /\ particles[i].z # Zero

DiscTwave(p) ==
    rebx_calculating_damping_timescale(
        sim.G, p.m, sim.ms, p.o.a, Radius(p),
        force.initial_disc_surface_density, force.alpha, DiscHr(p))

\* The calls that computed t_a from a configured disc with Hr > 0,
\* 2.7 + 1.1*alpha > 0, a positive finite t_wave and an eccentricity of at
\* least 2.02*Hr.
AtOrBeyondSingularity ==
    {i \in Evaluated :
        /\ particles[i].ap.tau_a # NULL
        /\ DiscConfigured
        /\ FLt(Zero, DiscHr(particles[i]))
        /\ FLt(Zero, FAdd(Dec(27, -1), FMul(Dec(11, -1), force.alpha)))
        /\ FLt(Zero, DiscTwave(particles[i]))
        /\ FLt(DiscTwave(particles[i]), INFINITY)
        /\ FLe(FMul(Dec(202, -2), DiscHr(particles[i])), particles[i].o.e)}

C8_DriverDelegatesOnceWithFrame ==
    /\ Len(calls) = ndriver
    /\ \A n \in 1..Len(calls) :
          /\ calls[n].coordinates =
                IF force.coordinates = NULL THEN REBX_COORDINATES_JACOBI
                ELSE force.coordinates
          /\ calls[n].calculate_effect =
                "rebx_calculate_modify_orbits_with_type_I_migration"

\* The driver ran twice with `coordinates` not set.
C8_Witness ==
    /\ ndriver = 2
    /\ Len(calls) = 2
    /\ force.coordinates = NULL
    /\ calls[2].coordinates = REBX_COORDINATES_JACOBI

\* C9: each returned component is -dv_i * invtau_a plus the eccentricity /
\* inclination contribution for that component.
C9_ReturnedIsSumOfTerms ==
    \A i \in Returned :
        LET dv == RelVel(particles[i])
        IN  out[i].a =
               Vec(FAdd(FNeg(FMul(dv.x, out[i].invtau_a)), out[i].ecc_inc.x),
                   FAdd(FNeg(FMul(dv.y, out[i].invtau_a)), out[i].ecc_inc.y),
                   FAdd(FNeg(FMul(dv.z, out[i].invtau_a)), out[i].ecc_inc.z))

\* C10: the evaluator is a function of the particle, the reference body
\* and the configuration, none of which it writes: within a step, particles
\* with the same state and parameters are returned the same acceleration,
\* in whatever order they are evaluated.
C10_ResultDependsOnInputsOnly ==
    \A i, j \in Evaluated :
        particles[i] = particles[j]
        => /\ out[i].kind = out[j].kind
           /\ out[i].a = out[j].a

=============================================================================
